---- MODULE Spec2Model ----
(***************************************************************************)
(* Recording/session state machine of the AI interviewer extension and     *)
(* its cross-context messaging bridge.                                      *)
(*                                                                         *)
(* Page context : src/unnamed/part_006 (globals, createAndPlayWAVBuffer),  *)
(*                src/unnamed/part_005 (recording button),                  *)
(*                src/content/leetcode-handler.js (capture pipeline),       *)
(*                src/content/interviewer.js (conversation coordinator),    *)
(*                src/content/content.js (content-script listener).         *)
(* Background   : src/unnamed/part_007 (listener, handlers, chat history). *)
(***************************************************************************)
EXTENDS Integers, Sequences, FiniteSets, TLC

\* ------------------------------------------------------------------ bounds
MaxTurns == 2       \* recordings started in one behaviour
MaxProbes == 2      \* bridge requests issued by other callers (popup, ...)
MaxSessions == 1    \* messages delivered to the content-script listener
MaxChunks == 1      \* chunks buffered in audioChunks
MaxLive == 1        \* recordings being captured or processed at once
MaxPcm == 3         \* bytes of a PCM buffer or of a blob
MaxText == 4        \* characters of a base64 string handed to a decoder

Turns == 1..MaxTurns
\* Senders of bridge requests: the recordings, and the other callers 0, -1, ...
Probes == {1 - i : i \in 1..MaxProbes}
Senders == Probes \cup Turns

\* ------------------------------------------------- RecordingState (enum)
READY == "ready"
RECORDING == "recording"
PROCESSING == "processing"
AI_SPEAKING == "ai_speaking"
RecordingState == {READY, RECORDING, PROCESSING, AI_SPEAKING}

\* ----------------------------------------------------------------- texts
\* String.prototype.trim on the texts the model uses.
Trim(s) ==
  CASE s = " a " -> "a"
    [] s = " q " -> "q"
    [] s = " " -> ""
    [] OTHER -> s

\* Part texts the chat model may return.
ChatTexts == {"", " ", " a "}
\* Part texts the transcription model may return.
SttTexts == {"", " q "}

VARIABLES
  currentState,        \* part_006: let currentState
  recordingButton,     \* part_006: let recordingButton (DOM button or null)
  mediaRecorder,       \* part_006: let mediaRecorder (0 = null, k = recorder of turn k)
  audioChunks,         \* part_006: let audioChunks (turn id of each chunk)
  turn,                \* per recording: position of its asynchronous pipeline
  micHeld,             \* per recording: its getUserMedia stream has live tracks
  notice,              \* kind of the notification shown last: none, error, success
  bg,                  \* background bridge: the request of each sender
  ct,                  \* content bridge: the message in the content listener
  si,                  \* startInterview calls waiting for the permission probe
  sp,                  \* stopInterview calls waiting for their storage write
  isInterviewActive,   \* chrome.storage: isInterviewActive
  conversationHistory, \* chrome.storage: conversationHistory
  nextTurn,            \* recordings started so far + 1
  loaded,              \* initializeContentScript has read the persisted flag
  sessions,            \* messages delivered to the content-script listener so far
  probeHeld,           \* the permission probe's stream has live tracks
  popup,               \* popup/script.js: buttons, status line, handler in progress
  calc                 \* the call of a conversion function being made: name, input, result

vars == << currentState, recordingButton, mediaRecorder, audioChunks, turn,
           micHeld, notice, bg, ct, si, sp, isInterviewActive,
           conversationHistory, nextTurn, loaded, sessions,
           probeHeld, popup, calc >>

NoButton == [exists |-> FALSE, face |-> READY, disabled |-> FALSE]
NoReq ==
  [stage |-> "none", action |-> "", payload |-> "", audio |-> << >>,
   history |-> << >>, responses |-> << >>, caller |-> "", read |-> ""]
NoMsg == [stage |-> "none", action |-> "", responses |-> << >>]
\* The popup before its DOMContentLoaded handler has run.
PopupInit ==
  [loaded |-> FALSE, startDisabled |-> FALSE, stopDisabled |-> FALSE,
   status |-> "", pending |-> "none", sendFailed |-> FALSE]
\* (sendFailed: the last stop message could not be delivered)
\* No conversion function has been called.
NoCall == [op |-> "none"]

\* ------------------------------------------------ page state as one value
\* The page globals the synchronous helpers read and write, gathered so that
\* helper calls compose in program order.
Page ==
  [ currentState |-> currentState, recordingButton |-> recordingButton,
    mediaRecorder |-> mediaRecorder, audioChunks |-> audioChunks,
    turn |-> turn, notice |-> notice ]

SetPage(p) ==
  /\ currentState' = p.currentState
  /\ recordingButton' = p.recordingButton
  /\ mediaRecorder' = p.mediaRecorder
  /\ audioChunks' = p.audioChunks
  /\ turn' = p.turn
  /\ notice' = p.notice

\* updateButtonState changing the label and leaving the disabled flag as it
\* was.
updateButtonStateKeepsFlag(p, state) ==
  IF ~p.recordingButton.exists THEN p
  ELSE [p EXCEPT !.currentState = state,
                 !.recordingButton =
                    [exists |-> TRUE, face |-> state,
                     disabled |-> p.recordingButton.disabled]]

\* part_005 updateButtonState: no-op without a button, else sets currentState
\* and the button's label and disabled flag.
updateButtonState(p, state) ==
  IF ~p.recordingButton.exists THEN p
  ELSE [p EXCEPT !.currentState = state,
                 !.recordingButton =
                    [exists |-> TRUE, face |-> state,
                     disabled |-> state \in {PROCESSING, AI_SPEAKING}]]

\* part_005 removeRecordingButton
removeRecordingButton(p) == [p EXCEPT !.recordingButton = NoButton]

\* part_005 createRecordingButton
createRecordingButton(p) ==
  updateButtonState(
    [removeRecordingButton(p) EXCEPT
       !.recordingButton = [exists |-> TRUE, face |-> READY, disabled |-> FALSE]],
    READY)

\* part_005 showError / showSuccess
showError(p) == [p EXCEPT !.notice = "error"]
showSuccess(p) == [p EXCEPT !.notice = "success"]

\* leetcode-handler.js resetToReadyState.  MediaRecorder.stop() on a live
\* recorder makes it inactive at once and queues its stop event.
resetToReadyState(p) ==
  LET q == [updateButtonState(p, READY) EXCEPT
              !.currentState = READY, !.audioChunks = << >>]
  IN IF q.mediaRecorder = 0 THEN q
     ELSE [q EXCEPT
             !.turn[q.mediaRecorder] =
                IF @ = "recording" THEN "stopping" ELSE @,
             !.mediaRecorder = 0]

\* ------------------------------------------------------ background bridge
\* A request as chrome.runtime.sendMessage hands it to the background.
Request(action, payload, audio) ==
  [stage |-> "sent", action |-> action, payload |-> payload, audio |-> audio,
   history |-> << >>, responses |-> << >>, caller |-> "", read |-> ""]

\* sendResponse: appends a response to the request's channel.
sendResponse(req, resp) ==
  [req EXCEPT !.responses = Append(@, resp), !.stage = "responded"]

Failure(msg) == [success |-> FALSE, error |-> msg]

\* part_007 chrome.runtime.onMessage listener with the synchronous part of
\* the handler it dispatches to (handleTextToSpeech, handleSpeechToText,
\* handleChatMessage / sendPromptAndHandleHistory up to their first await).
bgListener(req) ==
  IF req.action = ""
  THEN sendResponse(req, Failure("Invalid request format"))
  ELSE CASE req.action = "textToSpeech" ->
              IF req.payload = ""
              THEN sendResponse(req, Failure("Text parameter is required and must be a string"))
              ELSE [req EXCEPT !.stage = "api"]
         [] req.action = "speechToText" ->
              IF req.payload = ""
              THEN sendResponse(req, Failure("Audio blob parameter is required"))
              ELSE [req EXCEPT !.stage = "api"]
         [] req.action = "sendChatMessage" ->
              IF req.payload = ""
              THEN sendResponse(req, Failure("Prompt must be a non-empty string"))
              ELSE [req EXCEPT !.stage = "read"]
         [] OTHER ->
              sendResponse(req, Failure("Unknown action"))

\* readHistory sending the new user turn alone as the context.
readHistoryUserOnly(req, stored) ==
  [req EXCEPT !.history = << [role |-> "user", text |-> req.payload] >>,
              !.stage = "api"]

\* part_007 sendPromptAndHandleHistory: the history read and the push of the
\* user turn.
readHistory(req, stored) ==
  [req EXCEPT !.history = Append(stored, [role |-> "user", text |-> req.payload]),
              !.stage = "api"]

\* chrome.runtime.sendMessage to the background: the listener runs on the
\* request; a chat request goes on to read the stored history, the first
\* thing sendPromptAndHandleHistory does.
sendMessage(action, payload, audio) ==
  LET req == bgListener(Request(action, payload, audio))
  IN IF req.stage = "read" THEN readHistory(req, conversationHistory) ELSE req

\* processRecordedAudio failing without its finally block: the error is
\* shown and the state is left as it was.
failTurnKeepsState(p, k) == showError([p EXCEPT !.turn[k] = "done"])

\* ------------------------------------------------------- capture pipeline
\* The catch and finally of processRecordedAudio: the error is shown and the
\* pipeline resets.
failTurn(p, k) == resetToReadyState(showError([p EXCEPT !.turn[k] = "done"]))

\* leetcode-handler.js startRecording, up to its await of getUserMedia.
startRecording(p, k) ==
  [ [updateButtonState(p, RECORDING) EXCEPT !.currentState = RECORDING]
      EXCEPT !.turn[k] = "acquiring" ]

\* stopRecording without its check of the recorder: it moves to Processing
\* whether or not a recording is active.
stopRecordingUnchecked(p) ==
  [ [updateButtonState(p, PROCESSING) EXCEPT !.currentState = PROCESSING]
      EXCEPT !.audioChunks = << >> ]

\* stopRecording stopping the recorder without the move to Processing.
stopRecordingLate(p) ==
  IF p.mediaRecorder # 0 /\ p.turn[p.mediaRecorder] = "recording"
  THEN [p EXCEPT !.turn[p.mediaRecorder] = "stopping"]
  ELSE p

\* leetcode-handler.js stopRecording
stopRecording(p) ==
  IF p.mediaRecorder # 0 /\ p.turn[p.mediaRecorder] = "recording"
  THEN [ [updateButtonState(p, PROCESSING) EXCEPT !.currentState = PROCESSING]
           EXCEPT !.turn[p.mediaRecorder] = "stopping" ]
  ELSE p

\* handleRecordingClick without its guard on Processing and AiSpeaking: a
\* click in any state but Recording starts a recording.
handleRecordingClickUnguarded(p, k) ==
  IF p.currentState = RECORDING THEN stopRecording(p) ELSE startRecording(p, k)

\* part_005 handleRecordingClick
handleRecordingClick(p, k) ==
  IF p.currentState \in {PROCESSING, AI_SPEAKING} THEN p
  ELSE IF p.currentState = READY THEN startRecording(p, k)
  ELSE IF p.currentState = RECORDING THEN stopRecording(p)
  ELSE p

\* A click on the recording button.  A click in Ready starts recording k.
HandleRecordingClick ==
  /\ recordingButton.exists
  /\ currentState = READY =>
        /\ nextTurn <= MaxTurns
        /\ Cardinality({k \in Turns : turn[k] \notin {"idle", "playing", "done"}}) < MaxLive
  /\ SetPage(handleRecordingClick(Page, nextTurn))
  /\ nextTurn' = IF currentState = READY THEN nextTurn + 1 ELSE nextTurn
  /\ UNCHANGED << micHeld, bg, ct, si, sp, isInterviewActive,
                  conversationHistory, loaded, sessions >>
  /\ UNCHANGED << probeHeld, popup, calc >>

\* leetcode-handler.js startRecording after getUserMedia settles.
\*   denied      : getUserMedia rejects
\*   ctorThrows  : new MediaRecorder(...) throws
\*   startThrows : mediaRecorder.start(1000) throws
\*   ok          : recorder k is recording
startRecordingResume(p, k, outcome) ==
  CASE outcome = "denied" ->
         resetToReadyState(showError([p EXCEPT !.turn[k] = "done"]))
    [] outcome = "ctorThrows" ->
         resetToReadyState(showError([p EXCEPT !.turn[k] = "done"]))
    [] outcome = "startThrows" ->
         resetToReadyState(showError(
           [p EXCEPT !.turn[k] = "done", !.mediaRecorder = k,
                     !.audioChunks = << >>]))
    [] OTHER ->
         [p EXCEPT !.turn[k] = "recording", !.mediaRecorder = k,
                   !.audioChunks = << >>]

GetUserMediaSettles(k, outcome) ==
  /\ turn[k] = "acquiring"
  /\ SetPage(startRecordingResume(Page, k, outcome))
  /\ micHeld' = [micHeld EXCEPT ![k] = (outcome # "denied")]
  /\ UNCHANGED << bg, ct, si, sp, isInterviewActive, conversationHistory,
                  nextTurn, loaded, sessions >>
  /\ UNCHANGED << probeHeld, popup, calc >>

\* leetcode-handler.js mediaRecorder.ondataavailable
ondataavailable(p, k, size) ==
  IF size > 0 THEN [p EXCEPT !.audioChunks = Append(@, k)] ELSE p

\* The periodic (1 s) chunk of a running recorder.
DataAvailable(k) ==
  /\ turn[k] = "recording"
  /\ Len(audioChunks) < MaxChunks
  /\ SetPage(ondataavailable(Page, k, 1))
  /\ UNCHANGED << micHeld, bg, ct, si, sp, isInterviewActive,
                  conversationHistory, nextTurn, loaded, sessions >>
  /\ UNCHANGED << probeHeld, popup, calc >>

\* leetcode-handler.js mediaRecorder.onerror.  The recorder is inactive when
\* the error event fires; its dataavailable and stop events follow
\* ("errored": stopped by an error, stop event pending).
onerror(p, k) ==
  resetToReadyState(showError([p EXCEPT !.turn[k] = "errored"]))

DeviceError(k) ==
  /\ turn[k] = "recording"
  /\ SetPage(onerror(Page, k))
  /\ UNCHANGED << micHeld, bg, ct, si, sp, isInterviewActive,
                  conversationHistory, nextTurn, loaded, sessions >>
  /\ UNCHANGED << probeHeld, popup, calc >>

\* processRecordedAudio without its validation of the buffer.
RecordedAudioUnvalidated(p) == TRUE

\* leetcode-handler.js processRecordedAudio, up to its first request: TRUE
\* iff the validation passes and speechToText is sent.
RecordedAudioValid(p) == Len(p.audioChunks) > 0

\* leetcode-handler.js processRecordedAudio up to the speechToText request;
\* on a validation failure, its catch and finally.
processRecordedAudio(p, k) ==
  IF RecordedAudioValid(p)
  THEN [p EXCEPT !.turn[k] = "stt"]
  ELSE failTurn(p, k)

\* The recorder's last dataavailable event and its stop event:
\* mediaRecorder.onstop releases the stream and runs processRecordedAudio.
OnStop(k, size) ==
  /\ turn[k] \in {"stopping", "errored"}
  /\ size > 0 => Len(audioChunks) < MaxChunks
  /\ LET p == ondataavailable(Page, k, size)
     IN /\ SetPage(processRecordedAudio(p, k))
        /\ bg' = IF RecordedAudioValid(p)
                 THEN [bg EXCEPT ![k] = sendMessage("speechToText", "audio", p.audioChunks)]
                 ELSE bg
  /\ micHeld' = [micHeld EXCEPT ![k] = FALSE]
  /\ UNCHANGED << ct, si, sp, isInterviewActive, conversationHistory,
                  nextTurn, loaded, sessions >>
  /\ UNCHANGED << probeHeld, popup, calc >>

\* ---------------------------------------------------- background handlers
\* What the remote generateContent call can give back.
\*   throw        : the call rejects (network, authentication, quota)
\*   noCandidates : a response without candidates
\*   noParts      : a candidate without content parts
\*   part         : a candidate whose first part carries a text
AdapterKinds == {"throw", "noCandidates", "noParts", "part"}

\* chatHistoryAfter storing the reply as the model gave it, untrimmed.
chatHistoryAfterUntrimmed(req, stored, kind, text) ==
  CASE kind = "noParts" -> Append(req.history, [role |-> "model", text |-> ""])
    [] kind = "part" /\ Trim(text) # "" ->
         Append(req.history, [role |-> "model", text |-> text])
    [] OTHER -> stored

\* chatHistoryAfter persisting the user turn before the call, so that a
\* failed call leaves it in the history.
chatHistoryAfterUserFirst(req, stored, kind, text) ==
  CASE kind = "noParts" -> Append(req.history, [role |-> "model", text |-> ""])
    [] kind = "part" /\ Trim(text) # "" ->
         Append(req.history, [role |-> "model", text |-> Trim(text)])
    [] OTHER -> req.history

\* chatHistoryAfter persisting the model turn alone, on the stored history.
chatHistoryAfterModelOnly(req, stored, kind, text) ==
  CASE kind = "noParts" -> Append(stored, [role |-> "model", text |-> ""])
    [] kind = "part" /\ Trim(text) # "" ->
         Append(stored, [role |-> "model", text |-> Trim(text)])
    [] OTHER -> stored

\* chatHistoryAfter appending its two turns to the transcript as stored at
\* the time of the write.
chatHistoryAfterMerged(req, stored, kind, text) ==
  LET user == [role |-> "user", text |-> req.payload]
  IN CASE kind = "noParts" ->
            Append(Append(stored, user), [role |-> "model", text |-> ""])
       [] kind = "part" /\ Trim(text) # "" ->
            Append(Append(stored, user), [role |-> "model", text |-> Trim(text)])
       [] OTHER -> stored

\* part_007 sendPromptAndHandleHistory after generateContent settles: the
\* history to persist (the stored one when nothing is written).
chatHistoryAfter(req, stored, kind, text) ==
  CASE kind = "noParts" -> Append(req.history, [role |-> "model", text |-> ""])
    [] kind = "part" /\ Trim(text) # "" ->
         Append(req.history, [role |-> "model", text |-> Trim(text)])
    [] OTHER -> stored

\* part_007 handleChatMessage: the response to a settled chat call.
chatResponse(kind, text) ==
  CASE kind = "noParts" -> [success |-> TRUE, text |-> ""]
    [] kind = "part" /\ Trim(text) # "" -> [success |-> TRUE, text |-> Trim(text)]
    [] OTHER -> Failure("AI response failed")

\* part_007 speechToText + handleSpeechToText: the response to a settled
\* transcription call.
sttResponse(kind, text) ==
  CASE kind = "part" /\ Trim(text) # "" ->
         [success |-> TRUE, text |-> Trim(text),
          message |-> "Speech to text conversion completed successfully"]
    [] OTHER -> Failure("Speech to text failed")

\* What textToSpeech gives handleTextToSpeech.
\*   throw : the synthesis call fails
\*   pcm   : base64 PCM samples
\*   blob  : a payload that is not a base64 string (a Blob object)
TtsResults == {"throw", "pcm", "blob"}

\* part_007 handleTextToSpeech: the response to a settled synthesis call.
ttsResponse(result) ==
  IF result = "throw" THEN Failure("Text-to-speech failed")
  ELSE [success |-> TRUE, audioData |-> result,
        message |-> "Text to speech conversion completed successfully"]

\* ------------------------------------------- other callers of the bridge
\*   firstInterviewPrompt : interviewer.js firstInterviewPrompt, the opening
\*                          prompt of startInterview(firstTime = true)
\*   popup                : popup/script.js sendChatMessage, or any other
\*                          extension page with any request
Callers == {"firstInterviewPrompt", "popup"}
ProbeActions == {"", "textToSpeech", "speechToText", "sendChatMessage", "logError"}
ProbePayloads == {"", "q"}

\* The value of a response's field as JavaScript reads it.
Field(resp, f) == IF f \in DOMAIN resp THEN resp[f] ELSE "undefined"

\* The cause of a failure the caller reports.  firstInterviewPrompt reads
\* response.message; the popup chat reads response.error.
callerReads(caller, resp) ==
  IF resp.success THEN ""
  ELSE IF caller = "firstInterviewPrompt" THEN Field(resp, "message")
  ELSE Field(resp, "error")

\* interviewer.js firstInterviewPrompt after the sendChatMessage response: a
\* failure is shown to the user.
firstInterviewPromptResume(p, resp) ==
  IF resp.success THEN p ELSE showError(p)

\* The channel of a request once its caller has taken the response.
Closed(req) ==
  [NoReq EXCEPT !.stage = "closed", !.action = req.action,
                !.responses = req.responses, !.caller = req.caller,
                !.read = callerReads(req.caller, req.responses[1])]

\* The caller's sendMessage promise settles with the response of req.
Receive(s, req) ==
  /\ bg' = [bg EXCEPT ![s] = Closed(req)]
  /\ notice' =
       IF req.caller = "firstInterviewPrompt"
       THEN firstInterviewPromptResume(Page, req.responses[1]).notice
       ELSE notice

\* A caller sends a request; a request the listener rejects is answered at
\* once.
ProbeSend(s, caller, action, payload) ==
  /\ bg[s].stage = "none"
  /\ caller = "firstInterviewPrompt" => action = "sendChatMessage" /\ payload # ""
  /\ LET req == [sendMessage(action, payload, << >>) EXCEPT !.caller = caller]
     IN IF req.stage = "responded"
        THEN Receive(s, req)
        ELSE bg' = [bg EXCEPT ![s] = req] /\ notice' = notice
  /\ UNCHANGED << currentState, recordingButton, mediaRecorder, audioChunks,
                  turn, micHeld, ct, si, sp, isInterviewActive,
                  conversationHistory, nextTurn, loaded, sessions >>
  /\ UNCHANGED << probeHeld, popup, calc >>

\* The chat call of caller s settles: sendPromptAndHandleHistory persists the
\* history and handleChatMessage responds.
BgChatSettles(s, kind, text) ==
  /\ bg[s].stage = "api"
  /\ bg[s].action = "sendChatMessage"
  /\ kind # "part" => text = ""
  /\ Receive(s, sendResponse(bg[s], chatResponse(kind, text)))
  /\ conversationHistory' = chatHistoryAfter(bg[s], conversationHistory, kind, text)
  /\ UNCHANGED << currentState, recordingButton, mediaRecorder, audioChunks,
                  turn, micHeld, ct, si, sp,
                  isInterviewActive, nextTurn, loaded, sessions >>
  /\ UNCHANGED << probeHeld, popup, calc >>

\* The transcription call of caller s settles: handleSpeechToText responds.
BgSttSettles(s, kind, text) ==
  /\ bg[s].stage = "api"
  /\ bg[s].action = "speechToText"
  /\ kind # "part" => text = ""
  /\ Receive(s, sendResponse(bg[s], sttResponse(kind, text)))
  /\ UNCHANGED << currentState, recordingButton, mediaRecorder, audioChunks,
                  turn, micHeld, ct, si, sp,
                  isInterviewActive, conversationHistory, nextTurn, loaded, sessions >>
  /\ UNCHANGED << probeHeld, popup, calc >>

\* The synthesis call of caller s settles: handleTextToSpeech responds.
BgTtsSettles(s, result) ==
  /\ bg[s].stage = "api"
  /\ bg[s].action = "textToSpeech"
  /\ Receive(s, sendResponse(bg[s], ttsResponse(result)))
  /\ UNCHANGED << currentState, recordingButton, mediaRecorder, audioChunks,
                  turn, micHeld, ct, si, sp,
                  isInterviewActive, conversationHistory, nextTurn, loaded, sessions >>
  /\ UNCHANGED << probeHeld, popup, calc >>

\* interviewer.js / popup/script.js clearConversationHistory: the persisted
\* transcript is replaced by the empty list (the statistics it also resets
\* are not part of the model).  Nothing tells the background, whose chat
\* calls in flight keep the history they read.
ClearConversationHistory ==
  /\ conversationHistory' = << >>
  /\ UNCHANGED << currentState, recordingButton, mediaRecorder, audioChunks,
                  turn, micHeld, notice, bg, ct, si, sp,
                  isInterviewActive, nextTurn, loaded, sessions >>
  /\ UNCHANGED << probeHeld, popup, calc >>

\* ------------------------------------------------ conversation coordinator
\* leetcode-handler.js processRecordedAudio after the speechToText response:
\* on success handleUserInteraction sends the chat request.
afterTranscription(p, k, resp) ==
  IF ~resp.success THEN failTurn(p, k) ELSE [p EXCEPT !.turn[k] = "chat"]

\* interviewer.js playAIResponse up to its textToSpeech request.
playAIResponse(p, k) ==
  [ [updateButtonState(p, AI_SPEAKING) EXCEPT !.currentState = AI_SPEAKING]
      EXCEPT !.turn[k] = "tts" ]

\* interviewer.js handleUserInteraction after the sendChatMessage response:
\* on failure it rethrows into processRecordedAudio's catch; on success
\* handleAIResponse calls playAIResponse.
afterChat(p, k, resp) ==
  IF ~resp.success THEN failTurn(p, k) ELSE playAIResponse(p, k)

\* interviewer.js playAIResponse after the textToSpeech response: TRUE iff
\* the audio is decoded and handed to createAndPlayWAVBuffer.
Playable(resp) ==
  /\ resp.success
  /\ resp.audioData = "pcm"

\* interviewer.js playAIResponse after the textToSpeech response, then the
\* return through handleAIResponse and handleUserInteraction into the finally
\* of processRecordedAudio.  A failure is caught inside playAIResponse.
afterSynthesis(p, k, resp) ==
  IF Playable(resp)
  THEN resetToReadyState([p EXCEPT !.turn[k] = "playing"])
  ELSE resetToReadyState(showError([p EXCEPT !.turn[k] = "done"]))

\* The page code awaiting the response of recording k's request resumes.
Resume(k, resp) ==
  CASE turn[k] = "stt" ->
         /\ SetPage(afterTranscription(Page, k, resp))
         /\ bg' = [bg EXCEPT ![k] =
                     IF resp.success
                     THEN sendMessage("sendChatMessage", Trim(resp.text), << >>)
                     ELSE NoReq]
    [] turn[k] = "chat" ->
         /\ SetPage(afterChat(Page, k, resp))
         /\ bg' = [bg EXCEPT ![k] =
                     IF resp.success
                     THEN sendMessage("textToSpeech", Trim(resp.text), << >>)
                     ELSE NoReq]
    [] OTHER ->
         /\ SetPage(afterSynthesis(Page, k, resp))
         /\ bg' = [bg EXCEPT ![k] = NoReq]

\* A request the listener answered at once (a validation failure): the
\* response reaches the page.
Deliver(k) ==
  /\ bg[k].stage = "responded"
  /\ Resume(k, bg[k].responses[1])
  /\ UNCHANGED << micHeld, ct, si, sp, isInterviewActive, conversationHistory,
                  nextTurn, loaded, sessions >>
  /\ UNCHANGED << probeHeld, popup, calc >>

\* The transcription call of recording k settles; handleSpeechToText
\* responds and processRecordedAudio resumes.
TranscriptionSettles(k, kind, text) ==
  /\ bg[k].stage = "api"
  /\ bg[k].action = "speechToText"
  /\ kind # "part" => text = ""
  /\ Resume(k, sttResponse(kind, text))
  /\ UNCHANGED << micHeld, ct, si, sp, isInterviewActive, conversationHistory,
                  nextTurn, loaded, sessions >>
  /\ UNCHANGED << probeHeld, popup, calc >>

\* The chat call of recording k settles; sendPromptAndHandleHistory persists
\* the history, handleChatMessage responds and handleUserInteraction resumes.
ChatSettles(k, kind, text) ==
  /\ bg[k].stage = "api"
  /\ bg[k].action = "sendChatMessage"
  /\ kind # "part" => text = ""
  /\ conversationHistory' = chatHistoryAfter(bg[k], conversationHistory, kind, text)
  /\ Resume(k, chatResponse(kind, text))
  /\ UNCHANGED << micHeld, ct, si, sp, isInterviewActive, nextTurn, loaded, sessions >>
  /\ UNCHANGED << probeHeld, popup, calc >>

\* The synthesis call of recording k settles; handleTextToSpeech responds and
\* playAIResponse resumes.
SynthesisSettles(k, result) ==
  /\ bg[k].stage = "api"
  /\ bg[k].action = "textToSpeech"
  /\ Resume(k, ttsResponse(result))
  /\ UNCHANGED << micHeld, ct, si, sp, isInterviewActive, conversationHistory,
                  nextTurn, loaded, sessions >>
  /\ UNCHANGED << probeHeld, popup, calc >>

\* part_006 createAndPlayWAVBuffer: the "ended" listener calls
\* onEndedCallback twice; interviewer.js passes resetToReadyState.
onEnded(p, k) ==
  resetToReadyState(resetToReadyState([p EXCEPT !.turn[k] = "done"]))

PlaybackEnded(k) ==
  /\ turn[k] = "playing"
  /\ SetPage(onEnded(Page, k))
  /\ UNCHANGED << micHeld, bg, ct, si, sp, isInterviewActive,
                  conversationHistory, nextTurn, loaded, sessions >>
  /\ UNCHANGED << probeHeld, popup, calc >>

\* part_006 createAndPlayWAVBuffer: audio.play() rejects; interviewer.js
\* shows the error and resets.
onPlayError(p, k) == resetToReadyState(showError([p EXCEPT !.turn[k] = "done"]))

PlaybackError(k) ==
  /\ turn[k] = "playing"
  /\ SetPage(onPlayError(Page, k))
  /\ UNCHANGED << micHeld, bg, ct, si, sp, isInterviewActive,
                  conversationHistory, nextTurn, loaded, sessions >>
  /\ UNCHANGED << probeHeld, popup, calc >>

\* ------------------------------------------------------- interview session
\* interviewer.js startInterview(firstTime = false) up to its await of
\* setInStorage("isInterviewActive", true).
startInterview(p) ==
  updateButtonState(createRecordingButton(p), PROCESSING)

\* MediaStreamTrack.stop() on every track of a stream: no track stays live.
stopTracks(live) == FALSE

\* requestMicrophonePermission keeping the probe stream open.
requestMicrophonePermissionRetains(p, granted) ==
  [page |-> IF granted THEN p ELSE showError(p), held |-> granted, ok |-> granted]

\* leetcode-handler.js requestMicrophonePermission after getUserMedia
\* settles: the page it leaves, whether the probe stream still has live
\* tracks, and whether it returns (ok) or throws.
requestMicrophonePermission(p, granted) ==
  [page |-> IF granted THEN p ELSE showError(p),
   held |-> IF granted THEN stopTracks(TRUE) ELSE FALSE,
   ok |-> granted]

\* interviewer.js startInterview after requestMicrophonePermission settles.
startInterviewResume(p, granted) ==
  LET probe == requestMicrophonePermission(p, granted)
  IN IF probe.ok THEN resetToReadyState(showSuccess(probe.page))
     ELSE showError(probe.page)

PermissionSettles(granted) ==
  /\ si > 0
  /\ SetPage(startInterviewResume(Page, granted))
  /\ probeHeld' = (probeHeld \/ requestMicrophonePermission(Page, granted).held)
  /\ isInterviewActive' = IF granted THEN isInterviewActive ELSE FALSE
  /\ si' = si - 1
  /\ UNCHANGED << micHeld, bg, ct, sp, conversationHistory, nextTurn, loaded, sessions >>
  /\ UNCHANGED << popup, calc >>

\* stopInterview ending every recording under way as well.
stopInterviewResumeCancels(p) ==
  [showSuccess(removeRecordingButton(p)) EXCEPT
     !.turn = [k \in DOMAIN @ |-> IF @[k] = "idle" THEN "idle" ELSE "done"]]

\* interviewer.js stopInterview after its await of setInStorage.
stopInterviewResume(p) == showSuccess(removeRecordingButton(p))

StopInterviewResumes ==
  /\ sp > 0
  /\ SetPage(stopInterviewResume(Page))
  /\ sp' = sp - 1
  /\ UNCHANGED << micHeld, bg, ct, si, isInterviewActive, conversationHistory,
                  nextTurn, loaded, sessions >>
  /\ UNCHANGED << probeHeld, popup, calc >>

\* content.js chrome.runtime.onMessage listener: dispatches on the action and
\* returns without calling sendResponse.
ctListener(msg) == [msg EXCEPT !.stage = "closed"]

ContentActions == {"", "interviewStart", "interviewStop", "logError"}

\* A message reaches the content-script listener.
contentReceives(action) ==
  /\ sessions < MaxSessions
  /\ sessions' = sessions + 1
  /\ ct' = ctListener([stage |-> "sent", action |-> action, responses |-> << >>])
  /\ CASE action = "interviewStart" ->
            /\ SetPage(startInterview(Page))
            /\ isInterviewActive' = TRUE
            /\ si' = si + 1
            /\ sp' = sp
       [] action = "interviewStop" ->
            /\ SetPage(Page)
            /\ isInterviewActive' = FALSE
            /\ sp' = sp + 1
            /\ si' = si
       [] OTHER ->
            /\ SetPage(Page)
            /\ UNCHANGED << isInterviewActive, si, sp >>
  /\ UNCHANGED << micHeld, bg, conversationHistory, nextTurn, loaded, probeHeld >>

ContentListener(action) ==
  /\ contentReceives(action)
  /\ UNCHANGED << popup, calc >>

\* initializeContentScript starting the session whatever the flag is.
initializeContentScriptAlways(p, flag) ==
  [page |-> startInterview(p), started |-> TRUE]

\* content.js initializeContentScript, up to the first await of the
\* startInterview it may call: the page it leaves and whether a session
\* start is under way.  An absent flag reads as false.
initializeContentScript(p, flag) ==
  IF flag THEN [page |-> startInterview(p), started |-> TRUE]
  ELSE [page |-> p, started |-> FALSE]

\* content.js initializeContentScript: resumes the session when the
\* persisted flag is set.
InitializeContentScript ==
  /\ ~loaded
  /\ loaded' = TRUE
  /\ SetPage(initializeContentScript(Page, isInterviewActive).page)
  /\ si' = IF initializeContentScript(Page, isInterviewActive).started
           THEN si + 1 ELSE si
  /\ UNCHANGED << micHeld, bg, ct, sp, isInterviewActive, conversationHistory,
                  nextTurn, sessions >>
  /\ UNCHANGED << probeHeld, popup, calc >>

\* ------------------------------------------------------- WAV container
\* Numbers are little-endian byte sequences, as DataView writes them, so that
\* a field keeps its width.  Num(v) is the number v; MulFrom(bs, b, 0) is
\* bs times b, one byte longer.
Num(v) == [i \in 1..4 |-> (v \div (256 ^ (i - 1))) % 256]

RECURSIVE MulFrom(_, _, _)
MulFrom(bs, b, c) ==
  IF bs = << >> THEN << c >>
  ELSE LET t == Head(bs) * b + c
       IN << t % 256 >> \o MulFrom(Tail(bs), b, t \div 256)

\* DataView.setUint32 / setUint16 (little-endian): the low 4 / 2 bytes.
setUint32(bs) == SubSeq(bs, 1, 4)
setUint16(bs) == SubSeq(bs, 1, 2)

\* The header with the RIFF chunk size written as the data length.
wavHeaderRiffIsData(sampleRate, numChannels, bitsPerSample, dataLength) ==
  LET blockAlign == (numChannels * bitsPerSample) \div 8
      byteRate == MulFrom(Num(sampleRate), blockAlign, 0)
  IN [ chunkId |-> "RIFF", chunkSize |-> setUint32(Num(dataLength)),
       format |-> "WAVE", subchunk1Id |-> "fmt ",
       subchunk1Size |-> setUint32(Num(16)), audioFormat |-> setUint16(Num(1)),
       numChannels |-> setUint16(Num(numChannels)),
       sampleRate |-> setUint32(Num(sampleRate)),
       byteRate |-> setUint32(byteRate),
       blockAlign |-> setUint16(Num(blockAlign)),
       bitsPerSample |-> setUint16(Num(bitsPerSample)),
       subchunk2Id |-> "data", subchunk2Size |-> setUint32(Num(dataLength)) ]

\* utilities.js createWAVheader, the writes into the 44-byte buffer.
wavHeader(sampleRate, numChannels, bitsPerSample, dataLength) ==
  LET blockAlign == (numChannels * bitsPerSample) \div 8
      byteRate == MulFrom(Num(sampleRate), blockAlign, 0)
  IN [ chunkId |-> "RIFF", chunkSize |-> setUint32(Num(36 + dataLength)),
       format |-> "WAVE", subchunk1Id |-> "fmt ",
       subchunk1Size |-> setUint32(Num(16)), audioFormat |-> setUint16(Num(1)),
       numChannels |-> setUint16(Num(numChannels)),
       sampleRate |-> setUint32(Num(sampleRate)),
       byteRate |-> setUint32(byteRate),
       blockAlign |-> setUint16(Num(blockAlign)),
       bitsPerSample |-> setUint16(Num(bitsPerSample)),
       subchunk2Id |-> "data", subchunk2Size |-> setUint32(Num(dataLength)) ]

\* The fields of a header in file order, and the bytes they take.
HeaderFields ==
  << "chunkId", "chunkSize", "format", "subchunk1Id", "subchunk1Size",
     "audioFormat", "numChannels", "sampleRate", "byteRate", "blockAlign",
     "bitsPerSample", "subchunk2Id", "subchunk2Size" >>

RECURSIVE SumLen(_, _)
SumLen(h, fs) == IF fs = << >> THEN 0 ELSE Len(h[Head(fs)]) + SumLen(h, Tail(fs))

HeaderLength(h) == SumLen(h, HeaderFields)

Thrown(msg) == [ok |-> FALSE, error |-> msg]

\* utilities.js createWAVheader
createWAVheader(sampleRate, numChannels, bitsPerSample, dataLength) ==
  IF sampleRate = 0 \/ sampleRate <= 0
  THEN Thrown("Sample rate must be a positive number")
  ELSE IF numChannels = 0 \/ numChannels < 1 \/ numChannels > 2
  THEN Thrown("Number of channels must be 1 (mono) or 2 (stereo)")
  ELSE IF bitsPerSample # 16 /\ bitsPerSample # 8
  THEN Thrown("Bits per sample must be 8 or 16")
  ELSE IF dataLength < 0
  THEN Thrown("Data length must be non-negative")
  ELSE [ok |-> TRUE,
        header |-> wavHeader(sampleRate, numChannels, bitsPerSample, dataLength)]

\* utilities.js createWAVBlob
createWAVBlob(pcmData, sampleRate, numChannels, bitsPerSample) ==
  IF Len(pcmData) = 0 THEN Thrown("PCM data cannot be empty")
  ELSE LET h == createWAVheader(sampleRate, numChannels, bitsPerSample, Len(pcmData))
       IN IF ~h.ok THEN Thrown("Failed to create WAV blob")
          ELSE [ok |-> TRUE, header |-> h.header, data |-> pcmData,
                type |-> "audio/wav"]

\* part_006 createAndPlayWAVBuffer, the blob it plays: the same header
\* layout at 24 kHz, mono, 16 bits, written without validation.
createAndPlayWAVBuffer(pcmData) ==
  [ok |-> TRUE, header |-> wavHeader(24000, 1, 16, Len(pcmData)),
   data |-> pcmData, type |-> "audio/wav"]

\* The parameters the calls are made with.
SampleRates == {-1, 0, 24000, 1073741824}
ChannelCounts == {0, 1, 2, 3}
SampleBits == {8, 16, 24}
DataLengths == -1..MaxPcm
ByteValues == {0, 77, 255}
RECURSIVE SeqsUpTo(_, _)
SeqsUpTo(S, n) ==
  IF n = 0 THEN {<< >>}
  ELSE LET shorter == SeqsUpTo(S, n - 1)
       IN shorter \cup {Append(q, x) : q \in {t \in shorter : Len(t) = n - 1}, x \in S}
ByteSeqs == SeqsUpTo(ByteValues, MaxPcm)

\* The conversion actions leave the page, the bridge and the popup alone.
\* calc holds the call being made until its caller has taken the result.
Others ==
  << currentState, recordingButton, mediaRecorder, audioChunks, turn, micHeld,
     notice, bg, ct, si, sp, isInterviewActive, conversationHistory, nextTurn,
     loaded, sessions, probeHeld, popup >>

CallCreateWAVheader(sampleRate, numChannels, bitsPerSample, dataLength) ==
  /\ calc = NoCall
  /\ calc' = [op |-> "createWAVheader",
              in |-> [sampleRate |-> sampleRate, numChannels |-> numChannels,
                      bitsPerSample |-> bitsPerSample, dataLength |-> dataLength,
                      data |-> << >>],
              out |-> createWAVheader(sampleRate, numChannels, bitsPerSample, dataLength)]
  /\ UNCHANGED Others

CallCreateWAVBlob(pcmData, sampleRate, numChannels, bitsPerSample) ==
  /\ calc = NoCall
  /\ calc' = [op |-> "createWAVBlob",
              in |-> [sampleRate |-> sampleRate, numChannels |-> numChannels,
                      bitsPerSample |-> bitsPerSample, dataLength |-> Len(pcmData),
                      data |-> pcmData],
              out |-> createWAVBlob(pcmData, sampleRate, numChannels, bitsPerSample)]
  /\ UNCHANGED Others

CallCreateAndPlayWAVBuffer(pcmData) ==
  /\ calc = NoCall
  /\ calc' = [op |-> "createAndPlayWAVBuffer",
              in |-> [sampleRate |-> 24000, numChannels |-> 1,
                      bitsPerSample |-> 16, dataLength |-> Len(pcmData),
                      data |-> pcmData],
              out |-> createAndPlayWAVBuffer(pcmData)]
  /\ UNCHANGED Others

\* ------------------------------------------------------ base64 transport
\* A base64 string is a sequence of characters: the 64 alphabet characters
\* by their value 0..63, the padding character, a character outside the
\* alphabet, and white space (which atob strips).
B64Pad == 64
NotB64 == 65
Space == 66
Alphabet == 0..63

\* btoa as FileReader.readAsDataURL applies it: three bytes to four
\* characters, the last group padded.
RECURSIVE Encode(_)
Encode(bytes) ==
  IF bytes = << >> THEN << >>
  ELSE LET b1 == bytes[1]
           b2 == IF Len(bytes) >= 2 THEN bytes[2] ELSE 0
           b3 == IF Len(bytes) >= 3 THEN bytes[3] ELSE 0
           c1 == b1 \div 4
           c2 == (b1 % 4) * 16 + b2 \div 16
           c3 == (b2 % 16) * 4 + b3 \div 64
           c4 == b3 % 64
       IN IF Len(bytes) = 1 THEN << c1, c2, B64Pad, B64Pad >>
          ELSE IF Len(bytes) = 2 THEN << c1, c2, c3, B64Pad >>
          ELSE << c1, c2, c3, c4 >> \o Encode(SubSeq(bytes, 4, Len(bytes)))

\* FileReader.readAsDataURL: "data:<type>;base64,<payload>", kept as the
\* parts a split at "," gives (the blob types of the program hold no comma).
readAsDataURL(blob) == << blob.type, Encode(blob.bytes) >>

\* utilities.js blobToBase64
blobToBase64(blob) ==
  LET base64data == readAsDataURL(blob)[2]
  IN IF base64data = << >> THEN Thrown("Failed to extract base64 data from blob")
     ELSE [ok |-> TRUE, text |-> base64data]

\* ui-controller.js / part_006 blobToBase64: no check of the payload.
blobToBase64Content(blob) == [ok |-> TRUE, text |-> readAsDataURL(blob)[2]]

RECURSIVE Strip(_)
Strip(text) ==
  IF text = << >> THEN << >>
  ELSE IF Head(text) = Space THEN Strip(Tail(text))
  ELSE << Head(text) >> \o Strip(Tail(text))

RECURSIVE DecodeGroups(_)
DecodeGroups(cs) ==
  IF Len(cs) < 2 THEN << >>
  ELSE LET c3 == IF Len(cs) >= 3 THEN cs[3] ELSE 0
           c4 == IF Len(cs) >= 4 THEN cs[4] ELSE 0
           b1 == cs[1] * 4 + cs[2] \div 16
           b2 == (cs[2] % 16) * 16 + c3 \div 4
           b3 == (c3 % 4) * 64 + c4
       IN IF Len(cs) = 2 THEN << b1 >>
          ELSE IF Len(cs) = 3 THEN << b1, b2 >>
          ELSE << b1, b2, b3 >> \o DecodeGroups(SubSeq(cs, 5, Len(cs)))

\* window.atob (forgiving-base64 decode): strip white space, drop one or two
\* trailing padding characters of a string whose length is a multiple of 4,
\* fail on a length of 1 modulo 4 or on any character outside the alphabet.
atob(text) ==
  LET d == Strip(text)
      n == Len(d)
      e == IF n > 0 /\ n % 4 = 0 /\ d[n] = B64Pad
           THEN IF d[n - 1] = B64Pad THEN SubSeq(d, 1, n - 2) ELSE SubSeq(d, 1, n - 1)
           ELSE d
  IN IF Len(e) % 4 = 1 \/ \E i \in 1..Len(e) : e[i] \notin Alphabet
     THEN Thrown("InvalidCharacterError")
     ELSE [ok |-> TRUE, bytes |-> DecodeGroups(e)]

\* base64ToBufferArray without its check of the argument.
base64ToBufferArrayUnchecked(base64) ==
  LET binaryString == atob(base64)
  IN IF binaryString.ok THEN binaryString
     ELSE Thrown("Failed to decode base64 data")

\* utilities.js base64ToBufferArray
base64ToBufferArray(base64) ==
  IF base64 = << >> THEN Thrown("Base64 parameter must be a non-empty string")
  ELSE LET binaryString == atob(base64)
       IN IF binaryString.ok THEN binaryString
          ELSE Thrown("Failed to decode base64 data")

\* ui-controller.js base64ToBlob
base64ToBlob(base64, mimeType) ==
  IF base64 = << >> THEN Thrown("Base64 data must be a non-empty string")
  ELSE IF mimeType = "" THEN Thrown("MIME type must be specified")
  ELSE LET byteCharacters == atob(base64)
       IN IF byteCharacters.ok
          THEN [ok |-> TRUE, bytes |-> byteCharacters.bytes, type |-> mimeType]
          ELSE Thrown("Failed to convert base64 to blob")

\* The blobs that are encoded and the strings that are decoded.
BlobTypes == {"audio/webm", "audio/wav"}
MimeTypes == {"", "audio/wav"}
TextChars == {0, 63, B64Pad, NotB64, Space}
Texts == SeqsUpTo(TextChars, MaxText)

CallBlobToBase64(bytes, type) ==
  /\ calc = NoCall
  /\ calc' = [op |-> "blobToBase64", in |-> [bytes |-> bytes, type |-> type],
              out |-> blobToBase64([bytes |-> bytes, type |-> type])]
  /\ UNCHANGED Others

CallBlobToBase64Content(bytes, type) ==
  /\ calc = NoCall
  /\ calc' = [op |-> "blobToBase64Content", in |-> [bytes |-> bytes, type |-> type],
              out |-> blobToBase64Content([bytes |-> bytes, type |-> type])]
  /\ UNCHANGED Others

CallBase64ToBufferArray(base64) ==
  /\ calc = NoCall
  /\ calc' = [op |-> "base64ToBufferArray",
              in |-> [text |-> base64, type |-> "none"],
              out |-> base64ToBufferArray(base64)]
  /\ UNCHANGED Others

CallBase64ToBlob(base64, mimeType) ==
  /\ calc = NoCall
  /\ calc' = [op |-> "base64ToBlob",
              in |-> [text |-> base64, type |-> mimeType],
              out |-> base64ToBlob(base64, mimeType)]
  /\ UNCHANGED Others

\* The receiver of a transport string decodes it: the background with
\* base64ToBufferArray, the page with base64ToBlob.
DecodeTransport(mimeType) ==
  /\ calc.op \in {"blobToBase64", "blobToBase64Content"}
  /\ calc.out.ok
  /\ calc' = [op |-> "roundTrip",
              decoder |-> IF mimeType = "" THEN "base64ToBufferArray"
                          ELSE "base64ToBlob",
              in |-> calc.in,
              out |-> IF mimeType = "" THEN base64ToBufferArray(calc.out.text)
                      ELSE base64ToBlob(calc.out.text, mimeType)]
  /\ UNCHANGED Others

CallReturns ==
  /\ calc # NoCall
  /\ calc' = NoCall
  /\ UNCHANGED Others

\* -------------------------------------------------------------- the popup
\* popup/script.js updateInterviewStatus
updateInterviewStatus(pop, isActive) ==
  [pop EXCEPT !.startDisabled = isActive, !.stopDisabled = ~isActive,
              !.status = IF isActive THEN "Interview is active"
                         ELSE "Extension is ready!"]

\* The popup's DOMContentLoaded handler: it reads the persisted flag and
\* registers the click handlers.
PopupLoads ==
  /\ ~popup.loaded
  /\ popup' = [updateInterviewStatus(popup, isInterviewActive) EXCEPT !.loaded = TRUE]
  /\ UNCHANGED << currentState, recordingButton, mediaRecorder, audioChunks,
                  turn, micHeld, notice, bg, ct, si, sp, isInterviewActive,
                  conversationHistory, nextTurn, loaded, sessions, probeHeld, calc >>

\* What chrome.tabs.query and chrome.tabs.sendMessage meet.
\*   none        : no active tab
\*   elsewhere   : the active tab is not a LeetCode problem page
\*   unreachable : a problem page whose content script is not loaded
\*   page        : a problem page with the content script listening
Tabs == {"none", "elsewhere", "unreachable", "page"}

\* The catch of the start handler.
startFailed(pop) ==
  [pop EXCEPT !.status = "Failed to start", !.startDisabled = FALSE]

\* popup/script.js start handler up to the end of its await of
\* chrome.tabs.sendMessage.  settled: the send promise resolves.
startClick(pop, tab, settled) ==
  LET q == [pop EXCEPT !.startDisabled = TRUE, !.status = "Starting interview..."]
  IN IF tab = "page" /\ settled THEN [q EXCEPT !.pending = "start"]
     ELSE startFailed(q)

\* popup/script.js start handler after the send: the flag is persisted.
startResume(pop) ==
  [updateInterviewStatus(pop, TRUE) EXCEPT
     !.status = "Interview started!", !.pending = "none"]

\* The stop handler letting a failed send reach its outer catch.
stopClickUnswallowed(pop, tab) ==
  LET q == [pop EXCEPT !.stopDisabled = TRUE, !.status = "Stopping interview..."]
  IN IF tab \in {"none", "page"} THEN [q EXCEPT !.pending = "stop"]
     ELSE [q EXCEPT !.status = "Failed to stop", !.stopDisabled = FALSE,
                    !.sendFailed = TRUE]

\* popup/script.js stop handler up to the end of its await of
\* chrome.tabs.sendMessage: without a tab nothing is sent; a failed send is
\* caught and logged.
stopClick(pop, tab) ==
  LET q == [pop EXCEPT !.stopDisabled = TRUE, !.status = "Stopping interview..."]
  IN [q EXCEPT !.pending = "stop", !.sendFailed = (tab \notin {"none", "page"})]

\* popup/script.js stop handler after the send: the flag is persisted.
stopResume(pop) ==
  [updateInterviewStatus(pop, FALSE) EXCEPT
     !.status = "Interview stopped.", !.pending = "none"]

\* A click on the popup's start button.
PopupStartClick(tab, settled) ==
  /\ popup.loaded
  /\ ~popup.startDisabled
  /\ popup.pending = "none"
  /\ popup' = startClick(popup, tab, settled)
  /\ IF tab = "page"
     THEN contentReceives("interviewStart")
     ELSE UNCHANGED << currentState, recordingButton, mediaRecorder, audioChunks,
                       turn, micHeld, notice, bg, ct, si, sp, isInterviewActive,
                       conversationHistory, nextTurn, loaded, sessions, probeHeld >>
  /\ calc' = calc

PopupStartResumes ==
  /\ popup.pending = "start"
  /\ popup' = startResume(popup)
  /\ isInterviewActive' = TRUE
  /\ UNCHANGED << currentState, recordingButton, mediaRecorder, audioChunks,
                  turn, micHeld, notice, bg, ct, si, sp,
                  conversationHistory, nextTurn, loaded, sessions, probeHeld, calc >>

\* A click on the popup's stop button.
PopupStopClick(tab) ==
  /\ popup.loaded
  /\ ~popup.stopDisabled
  /\ popup.pending = "none"
  /\ popup' = stopClick(popup, tab)
  /\ IF tab = "page"
     THEN contentReceives("interviewStop")
     ELSE UNCHANGED << currentState, recordingButton, mediaRecorder, audioChunks,
                       turn, micHeld, notice, bg, ct, si, sp, isInterviewActive,
                       conversationHistory, nextTurn, loaded, sessions, probeHeld >>
  /\ calc' = calc

PopupStopResumes ==
  /\ popup.pending = "stop"
  /\ popup' = stopResume(popup)
  /\ isInterviewActive' = FALSE
  /\ UNCHANGED << currentState, recordingButton, mediaRecorder, audioChunks,
                  turn, micHeld, notice, bg, ct, si, sp,
                  conversationHistory, nextTurn, loaded, sessions, probeHeld, calc >>

\* -------------------------------------------------------------- the system
Init ==
  /\ currentState = READY
  /\ recordingButton = NoButton
  /\ mediaRecorder = 0
  /\ audioChunks = << >>
  /\ turn = [k \in Turns |-> "idle"]
  /\ micHeld = [k \in Turns |-> FALSE]
  /\ notice = "none"
  /\ bg = [s \in Senders |-> NoReq]
  /\ ct = NoMsg
  /\ si = 0
  /\ sp = 0
  /\ isInterviewActive \in BOOLEAN
  /\ conversationHistory = << >>
  /\ nextTurn = 1
  /\ loaded = FALSE
  /\ sessions = 0
  /\ probeHeld = FALSE
  /\ popup = PopupInit
  /\ calc = NoCall

\* The page context with the background serving its requests.
Next ==
  \/ InitializeContentScript
  \/ \E a \in {"interviewStart", "interviewStop"} : ContentListener(a)
  \/ \E g \in BOOLEAN : PermissionSettles(g)
  \/ StopInterviewResumes
  \/ HandleRecordingClick
  \/ \E k \in Turns, o \in {"ok", "denied", "ctorThrows", "startThrows"} :
        GetUserMediaSettles(k, o)
  \/ \E k \in Turns : DataAvailable(k)
  \/ \E k \in Turns : DeviceError(k)
  \/ \E k \in Turns, size \in {0, 1} : OnStop(k, size)
  \/ \E k \in Turns, kind \in AdapterKinds, t \in SttTexts :
        TranscriptionSettles(k, kind, t)
  \/ \E k \in Turns, kind \in AdapterKinds, t \in ChatTexts :
        ChatSettles(k, kind, t)
  \/ \E k \in Turns, r \in TtsResults : SynthesisSettles(k, r)
  \/ \E k \in Turns : Deliver(k)
  \/ \E k \in Turns : PlaybackEnded(k)
  \/ \E k \in Turns : PlaybackError(k)

Spec == Init /\ [][Next]_vars

\* Every request of the page context settles and every event the platform
\* owes is delivered: getUserMedia, the recorder's stop event, the three
\* remote calls and the delivery of their responses, playback, and the
\* permission probe of startInterview.
Fairness ==
  /\ \A k \in Turns :
       /\ WF_vars(\E o \in {"ok", "denied", "ctorThrows", "startThrows"} :
                     GetUserMediaSettles(k, o))
       /\ WF_vars(\E size \in {0, 1} : OnStop(k, size))
       /\ WF_vars(\E kind \in AdapterKinds, t \in SttTexts :
                     TranscriptionSettles(k, kind, t))
       /\ WF_vars(\E kind \in AdapterKinds, t \in ChatTexts :
                     ChatSettles(k, kind, t))
       /\ WF_vars(\E r \in TtsResults : SynthesisSettles(k, r))
       /\ WF_vars(Deliver(k))
       /\ WF_vars(PlaybackEnded(k) \/ PlaybackError(k))
  /\ WF_vars(\E g \in BOOLEAN : PermissionSettles(g))

\* The page context when every pending operation completes.
SpecLive == Init /\ [][Next]_vars /\ Fairness

\* The two listeners of the bridge, driven by arbitrary callers.
NextBridge ==
  \/ \E a \in ContentActions : ContentListener(a)
  \/ \E s \in Probes, c \in Callers, a \in ProbeActions, pl \in ProbePayloads :
        ProbeSend(s, c, a, pl)
  \/ \E s \in Probes, kind \in AdapterKinds, t \in ChatTexts :
        BgChatSettles(s, kind, t)
  \/ \E s \in Probes, kind \in AdapterKinds, t \in SttTexts :
        BgSttSettles(s, kind, t)
  \/ \E s \in Probes, r \in TtsResults : BgTtsSettles(s, r)

SpecBridge == Init /\ [][NextBridge]_vars

\* The persisted transcript under chat requests of arbitrary callers and
\* resets of the conversation, in any order.
NextTranscript ==
  \/ \E s \in Probes, c \in Callers, pl \in ProbePayloads :
        ProbeSend(s, c, "sendChatMessage", pl)
  \/ \E s \in Probes, kind \in AdapterKinds, t \in ChatTexts :
        BgChatSettles(s, kind, t)
  \/ ClearConversationHistory

SpecTranscript == Init /\ [][NextTranscript]_vars

\* The popup's session controls and the content script they drive.
NextPopup ==
  \/ PopupLoads
  \/ \E tab \in Tabs, settled \in BOOLEAN : PopupStartClick(tab, settled)
  \/ PopupStartResumes
  \/ \E tab \in Tabs : PopupStopClick(tab)
  \/ PopupStopResumes
  \/ InitializeContentScript
  \/ \E g \in BOOLEAN : PermissionSettles(g)
  \/ StopInterviewResumes

SpecPopup == Init /\ [][NextPopup]_vars

\* The conversion functions, called with every input of the bounded sets.
NextCodec ==
  \/ calc = NoCall /\ \E sr \in SampleRates, ch \in ChannelCounts, b \in SampleBits, n \in DataLengths :
        CallCreateWAVheader(sr, ch, b, n)
  \/ calc = NoCall /\ \E d \in ByteSeqs, sr \in SampleRates, ch \in ChannelCounts, b \in SampleBits :
        CallCreateWAVBlob(d, sr, ch, b)
  \/ calc = NoCall /\ \E d \in ByteSeqs : CallCreateAndPlayWAVBuffer(d)
  \/ calc = NoCall /\ \E d \in ByteSeqs, t \in BlobTypes : CallBlobToBase64(d, t)
  \/ calc = NoCall /\ \E d \in ByteSeqs, t \in BlobTypes : CallBlobToBase64Content(d, t)
  \/ calc = NoCall /\ \E t \in Texts : CallBase64ToBufferArray(t)
  \/ calc = NoCall /\ \E t \in Texts, m \in MimeTypes : CallBase64ToBlob(t, m)
  \/ \E m \in MimeTypes : DecodeTransport(m)
  \/ CallReturns

SpecCodec == Init /\ [][NextCodec]_vars

C4_FailureReleasesMicrophone ==
  [][ \A k \in Turns :
        (turn[k] \notin {"playing", "done"} /\ turn'[k] = "done")
          => (currentState' = READY /\ ~micHeld'[k]) ]_vars

\* C5: when the permission request of a session start is denied, the state
\* is Ready afterwards, the button is not left disabled, and no recording's
\* device acquisition is started.
C5_DeniedPermissionLeavesReady ==
  [][ PermissionSettles(FALSE)
        => /\ currentState' = READY
           /\ ~recordingButton'.disabled
           /\ \A k \in Turns : turn'[k] = "acquiring" => turn[k] = "acquiring" ]_vars

\* C6: a chat request reads the persisted transcript T when it is sent; when
\* it succeeds with reply R for user text C, the persisted transcript is
\* exactly T, then {user, C}, then {model, R}.
C6_StrictAppend ==
  [][ \A s \in Probes :
        /\ (bg[s].stage = "none" /\ bg'[s].stage = "api"
              /\ bg'[s].action = "sendChatMessage")
             => bg'[s].history =
                  conversationHistory
                    \o << [role |-> "user", text |-> bg'[s].payload] >>
        /\ (bg[s].stage = "api" /\ bg[s].action = "sendChatMessage"
              /\ bg'[s].stage = "closed" /\ bg'[s].responses[1].success)
             => conversationHistory' =
                  SubSeq(bg[s].history, 1, Len(bg[s].history) - 1)
                    \o << [role |-> "user", text |-> bg[s].payload],
                          [role |-> "model", text |-> bg'[s].responses[1].text] >> ]_vars

\* Two chat requests have succeeded one after the other: the second one ran
\* against a transcript that held the turns of the first.
C6_Witness ==
  /\ Len(conversationHistory) = 4
  /\ \A s \in Probes :
       /\ bg[s].stage = "closed"
       /\ bg[s].action = "sendChatMessage"
       /\ bg[s].responses[1].success

\* C7: when the chat call of a turn fails (the adapter rejects, gives no
\* candidate, or gives an empty reply text) the persisted transcript is left
\* as it was, the error is shown and the state is Ready.
C7_ChatFailureKeepsTranscript ==
  [][ \A k \in Turns :
        (bg[k].stage = "api" /\ bg[k].action = "sendChatMessage"
           /\ bg'[k] # bg[k]) =>
          \A kind \in AdapterKinds, t \in ChatTexts :
            ( /\ \/ kind \in {"throw", "noCandidates"}
                 \/ kind = "part" /\ Trim(t) = ""
              /\ ChatSettles(k, kind, t) )
              => /\ conversationHistory' = conversationHistory
                 /\ notice' = "error"
                 /\ currentState' = READY ]_vars

\* The chat call of a later turn has failed and the transcript of the
\* earlier turn is still in place.
C7_Witness ==
  /\ notice = "error"
  /\ currentState = READY
  /\ Len(conversationHistory) = 2
  /\ \E k \in Turns : turn[k] = "done" /\ bg[k].stage = "none"

\* C8: every request a message listener has received gets exactly one
\* response, in the background listener and in the content-script listener.
C8_ExactlyOneResponse ==
  /\ \A s \in Senders :
       bg[s].stage \in {"responded", "closed"} => Len(bg[s].responses) = 1
  /\ ct.stage = "closed" => Len(ct.responses) = 1

\* C9: a request whose action is not a known one is answered success:false
\* with an error string, in the background listener and in the
\* content-script listener; it is never dropped without an answer.
C9_UnknownActionRejected ==
  /\ \A s \in Senders :
       (bg[s].stage = "closed"
          /\ bg[s].action \notin {"", "textToSpeech", "speechToText", "sendChatMessage"})
         => /\ Len(bg[s].responses) = 1
            /\ ~bg[s].responses[1].success
            /\ Field(bg[s].responses[1], "error") \notin {"", "undefined"}
  /\ (ct.stage = "closed" /\ ct.action \notin {"interviewStart", "interviewStop"})
       => /\ Len(ct.responses) = 1
          /\ ~ct.responses[1].success
          /\ Field(ct.responses[1], "error") \notin {"", "undefined"}

C11_EmptyRecordingFails ==
  [][ \A k \in Turns :
        (turn[k] = "stopping" /\ audioChunks = << >> /\ OnStop(k, 0))
          => /\ bg' = bg
             /\ notice' = "error"
             /\ currentState' = READY
             /\ turn'[k] = "done" ]_vars

\* The first recording was stopped, nothing was sent for it and nothing was
\* written, and the error is on screen in Ready.
C11_Witness ==
  /\ turn[1] = "done"
  /\ nextTurn = 2
  /\ ~micHeld[1]
  /\ notice = "error"
  /\ currentState = READY
  /\ conversationHistory = << >>
  /\ \A s \in Senders : bg[s] = NoReq

\* C12: stopRecording with no active recording (no recorder, or a recorder
\* that is not recording) changes nothing and shows no error; so does a
\* click in Recording while the microphone is still being acquired.
C12_StopWithoutRecordingIsNoOp ==
  ~(mediaRecorder # 0 /\ turn[mediaRecorder] = "recording")
    => /\ stopRecording(Page) = Page
       /\ currentState = RECORDING => handleRecordingClick(Page, nextTurn) = Page

\* The state is Recording while getUserMedia has not settled: a click here
\* calls stopRecording without a recorder.
C12_Witness ==
  /\ currentState = RECORDING
  /\ recordingButton.exists
  /\ mediaRecorder = 0
  /\ \E k \in Turns : turn[k] = "acquiring"

\* C13: the synthesis request of a turn is issued once, out of the chat
\* success of that turn, when the transcript already ends with the user turn
\* and the model turn, and it carries exactly the model reply text.
C13_PersistBeforeSynthesis ==
  [][ \A k \in Turns :
        /\ (bg'[k].action = "textToSpeech" /\ bg[k].action # "textToSpeech")
             => /\ bg[k].action = "sendChatMessage"
                /\ turn[k] = "chat"
                /\ turn'[k] = "tts"
                /\ Len(conversationHistory') >= 2
                /\ conversationHistory'[Len(conversationHistory') - 1] =
                     [role |-> "user", text |-> bg[k].payload]
                /\ conversationHistory'[Len(conversationHistory')] =
                     [role |-> "model", text |-> bg'[k].payload]
        /\ turn[k] \in {"tts", "playing", "done"}
             => turn'[k] \in {"tts", "playing", "done"} ]_vars

\* The reply "a" to the utterance "q" is persisted and its synthesis request
\* is outstanding.
C13_Witness ==
  /\ conversationHistory =
       << [role |-> "user", text |-> "q"], [role |-> "model", text |-> "a"] >>
  /\ \E k \in Turns :
       /\ turn[k] = "tts"
       /\ bg[k].action = "textToSpeech"
       /\ bg[k].stage = "api"
       /\ bg[k].payload = "a"

\* C14: for the whole time the synthesis request of a turn is outstanding
\* the state is AiSpeaking and the button is disabled.
C14_SpeakingWhileSynthesis ==
  \A k \in Turns :
    (bg[k].action = "textToSpeech" /\ bg[k].stage = "api")
      => /\ currentState = AI_SPEAKING
         /\ recordingButton.exists => recordingButton.disabled

\* C18: a stop click (a click in Recording) on a running recording moves the
\* state to Processing in the same step, and the stream of a recording is
\* released by the time its transcription request is outstanding.
C18_ReleaseBeforeTranscription ==
  [][ \A k \in Turns :
        /\ (/\ HandleRecordingClick
            /\ currentState = RECORDING
            /\ turn[k] = "recording"
            /\ mediaRecorder = k)
             => /\ currentState' = PROCESSING
                /\ recordingButton'.disabled
                /\ turn'[k] = "stopping"
        /\ (bg'[k].action = "speechToText" /\ bg'[k].stage = "api")
             => ~micHeld'[k] ]_vars

\* The transcription request of a stopped recording is outstanding, its
\* stream is released and the state is Processing.
C18_Witness ==
  /\ currentState = PROCESSING
  /\ \E k \in Turns :
       /\ turn[k] = "stt"
       /\ bg[k].action = "speechToText"
       /\ bg[k].stage = "api"
       /\ ~micHeld[k]

\* C19: requestMicrophonePermission retains no stream: after a granted
\* probe no track of its stream is live, and the probe itself changes
\* neither the state nor the button.
C19_ProbeRetainsNothing ==
  /\ ~probeHeld
  /\ \A g \in BOOLEAN :
       LET probe == requestMicrophonePermission(Page, g)
       IN /\ ~probe.held
          /\ probe.page.currentState = currentState
          /\ probe.page.recordingButton = recordingButton

\* A session start has had its permission probe granted.
C19_Witness ==
  /\ recordingButton.exists
  /\ notice = "success"
  /\ currentState = READY
  /\ si = 0
  /\ ~probeHeld

\* C20: when the popup's stop message cannot reach the content script, the
\* failure is swallowed: the handler goes on, the persisted flag is set to
\* false, the popup shows the stopped status and no error.
C20_StopSendFailureSwallowed ==
  [][ /\ (\E tab \in {"elsewhere", "unreachable"} : PopupStopClick(tab))
           => /\ popup'.sendFailed
              /\ popup'.pending = "stop"
              /\ popup'.status = "Stopping interview..."
      /\ (popup.sendFailed /\ popup.pending = "stop" /\ popup'.pending = "none")
           => /\ isInterviewActive' = FALSE
              /\ popup'.status = "Interview stopped."
              /\ popup'.stopDisabled /\ ~popup'.startDisabled
              /\ notice' = notice ]_vars

\* The stop handler has finished after a send that failed.
C20_Witness ==
  /\ popup.sendFailed
  /\ popup.status = "Interview stopped."
  /\ popup.pending = "none"
  /\ ~isInterviewActive

\* The header facts of C15 for the call in calc: 44 bytes, data size n, RIFF
\* size 36 + n, block align channels * bits / 8, and the input bytes after it.
WavFieldsRight ==
  LET i == calc.in
      h == calc.out.header
      blockAlign == (i.numChannels * i.bitsPerSample) \div 8
  IN /\ HeaderLength(h) = 44
     /\ h.subchunk2Size = Num(i.dataLength)
     /\ h.chunkSize = Num(36 + i.dataLength)
     /\ h.blockAlign = setUint16(Num(blockAlign))
     /\ h.numChannels = setUint16(Num(i.numChannels))
     /\ h.bitsPerSample = setUint16(Num(i.bitsPerSample))
     /\ h.sampleRate = Num(i.sampleRate)
     /\ calc.op # "createWAVheader" => calc.out.data = i.data

\* The byte rate of the call in calc as a number, one byte wider than its
\* header field.
WavByteRate ==
  MulFrom(Num(calc.in.sampleRate),
          (calc.in.numChannels * calc.in.bitsPerSample) \div 8, 0)

WavBuilt ==
  /\ calc.op \in {"createWAVheader", "createWAVBlob", "createAndPlayWAVBuffer"}
  /\ calc.out.ok

C16_WavRejectsExactlyInvalid ==
  calc.op \in {"createWAVheader", "createWAVBlob"}
    => (calc.out.ok <=> /\ calc.in.numChannels \in {1, 2}
                        /\ calc.in.bitsPerSample \in {8, 16}
                        /\ calc.in.sampleRate > 0
                        /\ calc.in.dataLength >= 0)

\* A string no base64 decoder accepts: white space aside, it holds a
\* character outside the alphabet, or padding anywhere but in the last one
\* or two places of a string whose length is a multiple of 4, or one
\* character more than whole groups of 4.
Malformed(text) ==
  LET d == Strip(text)
      n == Len(d)
      pads == Cardinality({i \in 1..n : d[i] = B64Pad})
  IN \/ \E i \in 1..n : d[i] = NotB64
     \/ \E i \in 1..n : /\ d[i] = B64Pad
                        /\ ~(n % 4 = 0 /\ i >= n - 1 /\ \A j \in i..n : d[j] = B64Pad)
     \/ (n - pads) % 4 = 1

\* C17: a non-empty byte sequence encoded to its transport string and
\* decoded again is the same byte sequence; decoding fails when the string
\* is empty or malformed, or when the MIME type is missing.
C17_Base64RoundTrip ==
  /\ (calc.op = "roundTrip" /\ calc.in.bytes # << >>)
       => (calc.out.ok /\ calc.out.bytes = calc.in.bytes)
  /\ (calc.op \in {"blobToBase64", "blobToBase64Content"} /\ calc.in.bytes # << >>)
       => (calc.out.ok /\ calc.out.text # << >>)
  /\ calc.op \in {"base64ToBufferArray", "base64ToBlob"}
       => ((\/ calc.in.text = << >>
            \/ Malformed(calc.in.text)
            \/ (calc.op = "base64ToBlob" /\ calc.in.type = ""))
           => ~calc.out.ok)

\* Two bytes came back from a padded transport string as the page decodes it.
C17_Witness ==
  /\ calc.op = "roundTrip"
  /\ calc.decoder = "base64ToBlob"
  /\ calc.in.bytes = << 77, 255 >>
  /\ calc.out.ok
  /\ calc.out.bytes = << 77, 255 >>

\* C21: the transcript reset and the first prompt run when, and only when,
\* a session is freshly started by the interviewStart action: by the time
\* the fresh start asks for the microphone the transcript is empty and the
\* first prompt has been sent; a resume at page load does neither.
C21_FreshStartResets ==
  [][ /\ (sessions' = sessions + 1 /\ ct'.action = "interviewStart")
           => /\ conversationHistory' = << >>
              /\ \E s \in Probes : /\ bg'[s].caller = "firstInterviewPrompt"
                                   /\ bg[s].caller # "firstInterviewPrompt"
      /\ (loaded' /\ ~loaded)
           => /\ conversationHistory' = conversationHistory
              /\ bg' = bg ]_vars

\* C22: at content-script initialization the session is started if and only
\* if the persisted flag is true; with the flag false no button is created
\* and no microphone permission is requested.
C22_ResumeIffFlag ==
  [][ (loaded' /\ ~loaded)
        => /\ isInterviewActive
             => /\ recordingButton'.exists
                /\ currentState' = PROCESSING
                /\ si' = si + 1
           /\ ~isInterviewActive
             => /\ recordingButton' = recordingButton
                /\ currentState' = currentState
                /\ si' = si
                /\ probeHeld' = probeHeld ]_vars

\* The content script has initialized with the flag false: no button, no
\* permission request.
C22_Witness ==
  /\ loaded
  /\ ~isInterviewActive
  /\ sessions = 0
  /\ ~recordingButton.exists
  /\ si = 0
  /\ notice = "none"

\* C24: the transcript is written back without a check of what is stored:
\* when a chat request succeeds after the stored transcript has changed
\* since the request read it, the write replaces the transcript by what the
\* request read plus its own two turns, whatever was stored in between.
C24_LostUpdate ==
  [][ \A s \in Probes :
        LET read == SubSeq(bg[s].history, 1, Len(bg[s].history) - 1)
        IN (/\ bg[s].stage = "api"
            /\ bg[s].action = "sendChatMessage"
            /\ bg'[s].stage = "closed"
            /\ bg'[s].responses[1].success
            /\ conversationHistory # read)
             => /\ Len(conversationHistory') = Len(read) + 2
                /\ SubSeq(conversationHistory', 1, Len(read)) = read
                /\ conversationHistory'[Len(read) + 1] =
                     [role |-> "user", text |-> bg[s].payload]
                /\ conversationHistory'[Len(read) + 2].role = "model" ]_vars

\* Two overlapping chat requests have both been answered successfully and
\* the transcript holds the turns of one of them only.
C24_Witness ==
  /\ Len(conversationHistory) = 2
  /\ \A s \in Probes :
       /\ bg[s].stage = "closed"
       /\ bg[s].action = "sendChatMessage"
       /\ bg[s].caller = "popup"
       /\ bg[s].responses[1].success

\* C26: a click on the button while the state is Processing or AiSpeaking
\* has no effect: the state, the buffer, the recorder and every recording's
\* position are as before, so no microphone is acquired and nothing is sent.
C26_ClickIgnoredWhileBusy ==
  currentState \in {PROCESSING, AI_SPEAKING}
    => /\ handleRecordingClick(Page, nextTurn) = Page
       /\ \A k \in Turns : handleRecordingClick(Page, k).turn = turn

\* The chat request of a turn is outstanding in Processing, the button shown.
C26_Witness ==
  /\ currentState = PROCESSING
  /\ recordingButton.exists
  /\ mediaRecorder # 0
  /\ \E k \in Turns : turn[k] = "chat" /\ bg[k].stage = "api"

\* C27: whenever the button exists, its label and its disabled flag are a
\* function of currentState: the label is that of currentState, and the
\* button is disabled exactly in Processing and AiSpeaking.
C27_ButtonFollowsState ==
  recordingButton.exists
    => /\ recordingButton.face = currentState
       /\ recordingButton.disabled <=> currentState \in {PROCESSING, AI_SPEAKING}

\* A session start arrived while a reply was being synthesized: the new
\* button shows Ready after the permission probe.
C27_Witness ==
  /\ recordingButton.exists
  /\ currentState = READY
  /\ ~recordingButton.disabled
  /\ ct.action = "interviewStart"
  /\ si = 0
  /\ \E k \in Turns : turn[k] = "tts"

\* C29: the context of the chat call made for a user utterance is the
\* persisted transcript as read when the call starts, entry by entry with
\* its role, followed by the new user turn; it stays that while the call is
\* outstanding.
C29_ContextIsTranscriptPlusUtterance ==
  [][ \A k \in Turns :
        /\ (bg'[k].action = "sendChatMessage" /\ bg'[k].stage = "api"
              /\ bg[k].action # "sendChatMessage")
             => /\ Len(bg'[k].history) = Len(conversationHistory) + 1
                /\ \A i \in 1..Len(conversationHistory) :
                     bg'[k].history[i] = conversationHistory[i]
                /\ bg'[k].history[Len(bg'[k].history)] =
                     [role |-> "user", text |-> bg'[k].payload]
        /\ (bg[k].action = "sendChatMessage" /\ bg[k].stage = "api"
              /\ bg'[k].action = "sendChatMessage")
             => bg'[k].history = bg[k].history ]_vars

\* The chat call of a second turn is outstanding with the two entries of
\* the first turn and the new utterance as its context.
C29_Witness ==
  \E k \in Turns :
    /\ turn[k] = "chat"
    /\ bg[k].stage = "api"
    /\ bg[k].history = << [role |-> "user", text |-> "q"],
                          [role |-> "model", text |-> "a"],
                          [role |-> "user", text |-> "q"] >>

C28_BufferEmptyWhenReady ==
  (currentState = READY /\ \A k \in Turns : turn[k] # "recording")
    => audioChunks = << >>

\* C30: when the capture device reports an error during a recording, the
\* error is shown and the state becomes Ready; and when the interrupted
\* recording has wound up, its microphone is released and it has not been
\* sent for transcription.
C30_DeviceErrorDiscardsRecording ==
  [][ \A k \in Turns :
        /\ DeviceError(k) => (notice' = "error" /\ currentState' = READY)
        /\ (turn[k] = "errored" /\ turn'[k] # "errored")
             => /\ ~micHeld'[k]
                /\ turn'[k] = "done"
                /\ bg'[k].action # "speechToText" ]_vars

\* C31: a chat response whose candidate has no content parts is a failure:
\* the bridge answers success:false, the persisted transcript is left as it
\* was and no synthesis is requested for the turn.
C31_MissingPartsIsFailure ==
  [][ \A k \in Turns :
        ChatSettles(k, "noParts", "")
          => /\ ~chatResponse("noParts", "").success
             /\ conversationHistory' = conversationHistory
             /\ bg'[k].action # "textToSpeech" ]_vars

\* C32: while a speechToText or sendChatMessage request of a recording is
\* outstanding, currentState is Processing and the button is disabled.
C32_ProcessingWhileRequestOutstanding ==
  \A k \in Turns :
    (bg[k].stage = "api" /\ bg[k].action \in {"speechToText", "sendChatMessage"})
      => /\ currentState = PROCESSING
         /\ recordingButton.exists => recordingButton.disabled

\* C33: at most one microphone stream and one recorder are live at a time,
\* a running recorder is the one mediaRecorder refers to, and a recording
\* that is over holds no stream.
C33_OneStreamOneRecorder ==
  /\ Cardinality({k \in Turns : micHeld[k]}) <= 1
  /\ Cardinality({k \in Turns : turn[k] = "recording"}) <= 1
  /\ \A k \in Turns : turn[k] = "recording" => mediaRecorder = k
  /\ \A k \in Turns : turn[k] = "done" => ~micHeld[k]

\* C36: when stopInterview has completed no capture is active: no recorder
\* is running or being acquired, no stream is held, and no recording waits
\* to be processed.
C36_StopEndsCapture ==
  [][ sp' = sp - 1
        => \A k \in Turns :
             /\ turn'[k] \notin {"acquiring", "recording", "stopping", "errored"}
             /\ ~micHeld'[k] ]_vars

C35_BlobIsSpanChunks ==
  [][ \A k \in Turns :
        /\ ( /\ turn[k] \in {"recording", "stopping", "errored"}
             /\ turn'[k] \in {"recording", "stopping", "errored", "stt"} )
             => /\ Len(audioChunks) <= Len(audioChunks')
                /\ SubSeq(audioChunks', 1, Len(audioChunks)) = audioChunks
        /\ ( /\ turn[k] \in {"stopping", "errored"}
             /\ turn'[k] = "stt" )
             => /\ bg'[k].audio = audioChunks'
                /\ \A i \in 1..Len(bg'[k].audio) : bg'[k].audio[i] = k ]_vars

\* C37: a chat request that was in flight when the conversation was reset
\* (the transcript is empty while the request holds entries it read before)
\* leaves the transcript empty when it settles.
C37_ResetStaysEmpty ==
  [][ \A s \in Probes :
        ( /\ bg[s].stage = "api"
          /\ bg[s].action = "sendChatMessage"
          /\ Len(bg[s].history) > 1
          /\ conversationHistory = << >>
          /\ bg'[s].stage = "closed" )
          => conversationHistory' = << >> ]_vars

\* C39: the persisted transcript has even length, its odd entries are user
\* turns and its even entries are model turns.
C39_TranscriptAlternates ==
  /\ Len(conversationHistory) % 2 = 0
  /\ \A i \in 1..Len(conversationHistory) :
       conversationHistory[i].role = (IF i % 2 = 1 THEN "user" ELSE "model")

\* Every caller's chat request has succeeded and the transcript holds the
\* turns of one of them only: the writes overlapped or a reset ran between
\* them.
C39_Witness ==
  /\ Len(conversationHistory) = 2
  /\ \A s \in Probes :
       /\ bg[s].stage = "closed"
       /\ bg[s].action = "sendChatMessage"
       /\ bg[s].responses[1].success

\* C40: once the popup's start handler and every startInterview of the
\* content script have finished, a start that failed (its error is the
\* notice shown) has left the persisted isInterviewActive flag false.
C40_FailedStartLeavesFlagFalse ==
  ( /\ popup.status = "Interview started!"
    /\ popup.pending = "none"
    /\ si = 0
    /\ sp = 0
    /\ notice = "error" )
    => ~isInterviewActive

\* C38 as stated: when every microphone request, remote call and playback
\* completes, a stop click made during a recording (the recorder is stopping
\* and the state is Processing) is followed by the state Ready with the
\* recording button on the page and enabled.
C38_StopClickLeadsToEnabledButton ==
  \A k \in Turns :
    (turn[k] = "stopping" /\ mediaRecorder = k /\ currentState = PROCESSING)
      ~> ( /\ currentState = READY
           /\ recordingButton.exists
           /\ ~recordingButton.disabled )

\* C38: when every microphone request, remote call and playback completes,
\* a stop click made during a recording is followed by the state Ready, and
\* the recording button is enabled then unless stopInterview has removed it.
C38_StopClickLeadsToReady ==
  \A k \in Turns :
    (turn[k] = "stopping" /\ mediaRecorder = k /\ currentState = PROCESSING)
      ~> ( /\ currentState = READY
           /\ recordingButton.exists => ~recordingButton.disabled )

\* A turn has run to its end (its chat request succeeded) and the button is
\* there, enabled, in state Ready.
C38_Witness ==
  \E k \in Turns :
    /\ turn[k] = "done"
    /\ Len(conversationHistory) = 2
    /\ currentState = READY
    /\ recordingButton.exists
    /\ ~recordingButton.disabled

====
